---- MODULE Spec2Model ----
(***************************************************************************)
(* Model of src/bot.py: a Discord bot that keeps links in one SQLite      *)
(* table and serves four slash commands (save, list, get, remove).        *)
(* Every command handler is a coroutine; each `await` is a point where    *)
(* another handler may run, so every await is one step of the model.      *)
(* Text is modelled as a sequence of one-character strings.               *)
(***************************************************************************)
EXTENDS Integers, Sequences, FiniteSets, TLC

VARIABLES
    store,      \* table links: id -> row
    seq,        \* sqlite_sequence of links: largest id ever assigned
    writer,     \* invocation whose connection holds the write lock, 0 if none
    pc,         \* position of each invocation in its handler
    req,        \* the command invocation each slot is serving
    loc,        \* the handler's local variables
    conn,       \* whether the invocation's aiosqlite connection is open
    sent,       \* followup messages delivered by the invocation, in order
    created,    \* history: id -> what the inserting save was called with
    confirmed,  \* history: ids whose removal was confirmed to their creator
    issued,     \* history: number of invocations dispatched so far
    seen        \* history: whether the invocation was issued after the
                \* removal of its id had been confirmed to the creator

vars == <<store, seq, writer, pc, req, loc, conn, sent, created, confirmed, issued, seen>>

----------------------------------------------------------------------------
(* Bounds of the model *)

MaxInv == 3          \* invocations in one behaviour of Spec
MaxId == 2           \* inserts in one behaviour of Spec
MaxSegs == 4         \* comma-separated segments of a generated tags input
MaxSeqSaves == 52    \* inserts in one behaviour of SpecSeq
MaxSeqInv == 55      \* invocations in one behaviour of SpecSeq
MaxUrlLen == 5       \* characters of a generated url argument

(* Program constants *)

QueryLimit == 50     \* LIMIT 50 of both list queries
ShowLimit == 10      \* rows[:10]

Procs == {1, 2}      \* invocations in flight at once

----------------------------------------------------------------------------
(* Text *)

None == <<"NULL">>   \* Python None / SQL NULL; never equal to a text

Str(s) == [k \in 1 .. Len(s) |-> s[k]]

IsSpace(c) == c = " "

\* str.lower(), one character
LowerChar(c) ==
    IF c = "A" THEN "a" ELSE IF c = "B" THEN "b" ELSE c

\* str.lower()
Lower(s) == [k \in 1 .. Len(s) |-> LowerChar(s[k])]

RECURSIVE LStrip(_)
LStrip(s) ==
    IF s # <<>> /\ IsSpace(Head(s)) THEN LStrip(Tail(s)) ELSE s

RECURSIVE RStrip(_)
RStrip(s) ==
    IF s # <<>> /\ IsSpace(s[Len(s)]) THEN RStrip(SubSeq(s, 1, Len(s) - 1)) ELSE s

\* str.strip()
Strip(s) == RStrip(LStrip(s))

\* str.split(","): the segments between commas, always at least one
RECURSIVE Split(_)
Split(s) ==
    IF \E k \in 1 .. Len(s) : s[k] = ","
    THEN LET k == CHOOSE k \in 1 .. Len(s) :
                      s[k] = "," /\ \A j \in 1 .. k - 1 : s[j] # ","
         IN <<SubSeq(s, 1, k - 1)>> \o Split(SubSeq(s, k + 1, Len(s)))
    ELSE <<s>>

\* ",".join(list)
RECURSIVE Join(_)
Join(l) ==
    IF l = <<>> THEN <<>>
    ELSE IF Len(l) = 1 THEN l[1]
    ELSE l[1] \o <<",">> \o Join(Tail(l))

\* the list comprehension made to drop a tag it has already produced
RECURSIVE TagsListDistinct(_)
TagsListDistinct(segs) ==
    IF segs = <<>> THEN <<>>
    ELSE LET rest == TagsListDistinct(SubSeq(segs, 1, Len(segs) - 1))
             t == Lower(Strip(segs[Len(segs)]))
         IN IF t # <<>> /\ \A k \in 1 .. Len(rest) : rest[k] # t
            THEN Append(rest, t)
            ELSE rest

\* [t.strip().lower() for t in tags.split(",") if t.strip()]
RECURSIVE TagsList(_)
TagsList(segs) ==
    IF segs = <<>> THEN <<>>
    ELSE IF Strip(Head(segs)) # <<>>
         THEN <<Lower(Strip(Head(segs)))>> \o TagsList(Tail(segs))
         ELSE TagsList(Tail(segs))

\* tags_norm without its `else None`
NormalizeTagsJoinOnly(tags) ==
    IF tags = None \/ tags = <<>> THEN None
    ELSE Join(TagsList(Split(tags)))

\* tags_norm of link_save
NormalizeTags(tags) ==
    IF tags = None \/ tags = <<>> THEN None
    ELSE LET tags_list == TagsList(Split(tags))
         IN IF tags_list # <<>> THEN Join(tags_list) ELSE None

\* title if title else url
Label(title, url) == IF title # None /\ title # <<>> THEN title ELSE url

\* SQLite's LIKE: % is any run of characters, _ is any one character,
\* other characters compare without regard to ASCII case
RECURSIVE Like(_, _)
Like(p, s) ==
    IF p = <<>> THEN s = <<>>
    ELSE IF Head(p) = "%"
         THEN Like(Tail(p), s) \/ (s # <<>> /\ Like(p, Tail(s)))
         ELSE /\ s # <<>>
              /\ (Head(p) = "_" \/ LowerChar(Head(p)) = LowerChar(Head(s)))
              /\ Like(Tail(p), Tail(s))

\* tags LIKE '%tag_norm%'; NULL LIKE x is NULL, which selects nothing
TagsLike(tags, tag_norm) ==
    tags # None /\ Like(<<"%">> \o tag_norm \o <<"%">>, tags)

\* whether sub occurs in s as a contiguous run
Contains(s, sub) ==
    \E k \in 0 .. Len(s) - Len(sub) : SubSeq(s, k + 1, k + Len(sub)) = sub

----------------------------------------------------------------------------
(* URL validation *)

Letters == {"a", "b", "c", "e", "h", "l", "o", "p", "s", "t", "A", "B"}
Digits == {"0", "1", "8"}

IsAlpha(c) == c \in Letters
IsDigit(c) == c \in Digits

\* scheme_chars of urllib.parse
IsSchemeChar(c) == IsAlpha(c) \/ IsDigit(c) \/ c \in {"+", "-", "."}

\* position of the first c in s, 0 if there is none (str.find + 1)
Find(s, c) ==
    IF \E k \in 1 .. Len(s) : s[k] = c
    THEN CHOOSE k \in 1 .. Len(s) : s[k] = c /\ \A j \in 1 .. k - 1 : s[j] # c
    ELSE 0

StartsWith(s, pre) == Len(s) >= Len(pre) /\ SubSeq(s, 1, Len(pre)) = pre

\* urlparse(url): <<scheme, netloc>>; leading blanks are dropped first
UrlParse(url) ==
    LET u == LStrip(url)
        i == Find(u, ":")
        hasScheme == /\ i > 1
                     /\ IsAlpha(u[1])
                     /\ \A k \in 1 .. i - 1 : IsSchemeChar(u[k])
        scheme == IF hasScheme THEN Lower(SubSeq(u, 1, i - 1)) ELSE <<>>
        rest == IF hasScheme THEN SubSeq(u, i + 1, Len(u)) ELSE u
        after == SubSeq(rest, 3, Len(rest))
        j == Find(after, "/")
        netloc == IF StartsWith(rest, <<"/", "/">>)
                  THEN IF j = 0 THEN after ELSE SubSeq(after, 1, j - 1)
                  ELSE <<>>
    IN <<scheme, netloc>>

\* ([A-Za-z0-9-]+\.)+
IsLabels(s) ==
    /\ s # <<>>
    /\ s[Len(s)] = "."
    /\ s[1] # "."
    /\ \A k \in 1 .. Len(s) : IsAlpha(s[k]) \/ IsDigit(s[k]) \/ s[k] \in {"-", "."}
    /\ \A k \in 1 .. Len(s) - 1 : ~(s[k] = "." /\ s[k + 1] = ".")

\* [A-Za-z]{2,}
IsTld(s) == Len(s) >= 2 /\ \A k \in 1 .. Len(s) : IsAlpha(s[k])

\* (:\d+)?
IsPort(s) ==
    \/ s = <<>>
    \/ Len(s) >= 2 /\ s[1] = ":" /\ \A k \in 2 .. Len(s) : IsDigit(s[k])

\* (\/\S*)?
IsPath(s) ==
    \/ s = <<>>
    \/ s[1] = "/" /\ \A k \in 2 .. Len(s) : ~IsSpace(s[k])

\* a pattern that asks for no dot and no top-level domain
UrlRegexMatchAnyWord(url) ==
    /\ url # <<>>
    /\ \A k \in 1 .. Len(url) : ~IsSpace(url[k])

\* URL_REGEX.match(url)
UrlRegexMatch(url) ==
    \E pre \in {<<>>, <<"h", "t", "t", "p", ":", "/", "/">>,
                <<"h", "t", "t", "p", "s", ":", "/", "/">>} :
        /\ StartsWith(url, pre)
        /\ LET r == SubSeq(url, Len(pre) + 1, Len(url))
               n == Len(r)
           IN \E d \in 1 .. n : \E p \in d .. n : \E q \in p .. n :
                  /\ IsLabels(SubSeq(r, 1, d))
                  /\ IsTld(SubSeq(r, d + 1, p))
                  /\ IsPort(SubSeq(r, p + 1, q))
                  /\ IsPath(SubSeq(r, q + 1, n))

\* urlparse raises ValueError("Invalid IPv6 URL"): the netloc has one of
\* the two brackets without the other
UrlParseRaises(url) ==
    LET netloc == UrlParse(url)[2]
        has(c) == \E k \in 1 .. Len(netloc) : netloc[k] = c
    IN (has("[") /\ ~has("]")) \/ (has("]") /\ ~has("["))

\* the validation without its first test, the pattern alone
is_valid_url_pattern_only(url) == UrlRegexMatch(url)

is_valid_url(url) ==
    IF UrlParseRaises(url) THEN FALSE
    ELSE LET parsed == UrlParse(url)
         IN IF parsed[1] # <<>> /\ parsed[2] # <<>> THEN TRUE
            ELSE UrlRegexMatch(url)

----------------------------------------------------------------------------
(* Inputs *)

Users == {1, 2}          \* interaction.user.id
Times == {1}             \* readings of datetime.utcnow()

\* str(interaction.user)
UserName(u) == <<"user", u>>

\* datetime.isoformat()
IsoFormat(t) == <<"iso", t>>

UrlGood == <<"a", ".", "c", "o">>
UrlBad == <<"h", "e", "l", "l", "o">>
TagsExample == <<" ", "A", ",", " ", "b", " ", ",", "b", ",", " ">>
TagsBlank == <<" ", ",", " ">>

\* url, title and tags of the save invocations of Spec
SaveArgs ==
    { [url |-> UrlGood, title |-> <<"t">>, tags |-> TagsExample],
      [url |-> UrlBad, title |-> None, tags |-> TagsBlank] }

\* user id and manage_messages permission of the remove invocations of Spec
RemoveCallers == {<<1, FALSE>>, <<2, FALSE>>, <<2, TRUE>>}

\* tag of the list invocations of Spec
ListArgs == {None, <<"B", " ">>, <<"_">>}

\* id of the get and remove invocations of Spec
IdArgs == 1 .. MaxId

NoReq ==
    [kind |-> "none", url |-> None, title |-> None, tags |-> None,
     tag |-> None, id |-> 0, user |-> 0, perm |-> FALSE]

NoLoc ==
    [tags_norm |-> None, added_at |-> None, rowid |-> 0,
     row |-> <<>>, rows |-> <<>>, deleted |-> 0]

\* a followup whose ephemeral argument is not passed on
MsgPublic(type, ephemeral) ==
    [type |-> type, ephemeral |-> FALSE, id |-> 0, label |-> None,
     link |-> None, tags |-> None, by |-> None, at |-> None,
     shown |-> <<>>, total |-> 0]

\* a followup message; the fields a message does not carry keep these values
Msg(type, ephemeral) ==
    [type |-> type, ephemeral |-> ephemeral, id |-> 0, label |-> None,
     link |-> None, tags |-> None, by |-> None, at |-> None,
     shown |-> <<>>, total |-> 0]

----------------------------------------------------------------------------
(* The table *)

Ids == DOMAIN store

\* an INSERT whose values for url and title are in each other's place
RowColumnsSwapped(id, url, title, tags, added_by_id, added_by_name, added_at) ==
    [id |-> id, url |-> title, title |-> url, tags |-> tags,
     added_by_id |-> added_by_id, added_by_name |-> added_by_name,
     added_at |-> added_at]

\* INSERT INTO links (...) VALUES (...) under the given id
Row(id, url, title, tags, added_by_id, added_by_name, added_at) ==
    [id |-> id, url |-> url, title |-> title, tags |-> tags,
     added_by_id |-> added_by_id, added_by_name |-> added_by_name,
     added_at |-> added_at]

\* a plain INTEGER PRIMARY KEY: one more than the largest id now in the table
NextRowIdOfTable ==
    IF Ids = {} THEN 1 ELSE (CHOOSE x \in Ids : \A y \in Ids : y <= x) + 1

\* id INTEGER PRIMARY KEY AUTOINCREMENT: one more than the largest id the
\* table ever held, which sqlite_sequence remembers across deletions
NextRowId == seq + 1

\* the ids of S in ascending order (ORDER BY id)
RECURSIVE Ascending(_)
Ascending(S) ==
    IF S = {} THEN <<>>
    ELSE LET m == CHOOSE x \in S : \A y \in S : x <= y
         IN <<m>> \o Ascending(S \ {m})

\* the ids of S in descending order (ORDER BY id DESC)
RECURSIVE Descending(_)
Descending(S) ==
    IF S = {} THEN <<>>
    ELSE LET m == CHOOSE x \in S : \A y \in S : y <= x
         IN <<m>> \o Descending(S \ {m})

\* LIMIT n
Limit(l, n) == SubSeq(l, 1, IF Len(l) < n THEN Len(l) ELSE n)

\* the rows of both SELECTs of link_list; tag_norm = None when no tag is given
SelectList(tag_norm) ==
    LET match == {id \in Ids : tag_norm = None \/ TagsLike(store[id].tags, tag_norm)}
        ids == Limit(Descending(match), QueryLimit)
    IN [k \in 1 .. Len(ids) |-> store[ids[k]]]

\* SELECT ... WHERE id = ?, fetchone(): no row or one row
SelectById(id) == IF id \in Ids THEN <<store[id]>> ELSE <<>>

\* a DELETE that is never committed
DeleteUncommitted(id) == store

\* DELETE FROM links WHERE id = ?
DeleteById(id) == [x \in Ids \ {id} |-> store[x]]

----------------------------------------------------------------------------
(* Handlers *)

Terminal == {"responded", "rejected", "crashed"}

Goto(i, l) == pc' = [pc EXCEPT ![i] = l]
SetLoc(i, l) == loc' = [loc EXCEPT ![i] = l]
Send(i, m) == sent' = [sent EXCEPT ![i] = Append(@, m)]
Open(i) == conn' = [conn EXCEPT ![i] = TRUE]
Close(i) == conn' = [conn EXCEPT ![i] = FALSE]

\* the dispatcher hands an invocation to its handler
Invoke(i, r) ==
    /\ pc[i] \in Terminal \cup {"idle"}
    /\ pc' = [pc EXCEPT ![i] = "received"]
    /\ req' = [req EXCEPT ![i] = r]
    /\ loc' = [loc EXCEPT ![i] = NoLoc]
    /\ sent' = [sent EXCEPT ![i] = <<>>]
    /\ seen' = [seen EXCEPT ![i] = r.id \in confirmed]
    /\ issued' = issued + 1
    /\ UNCHANGED <<store, seq, writer, conn, created, confirmed>>

SaveReq(a, u) ==
    [NoReq EXCEPT !.kind = "save", !.url = a.url, !.title = a.title,
                  !.tags = a.tags, !.user = u]
ListReq(t) == [NoReq EXCEPT !.kind = "list", !.tag = t]
GetReq(id) == [NoReq EXCEPT !.kind = "get", !.id = id]
RemoveReq(id, u, p) ==
    [NoReq EXCEPT !.kind = "remove", !.id = id, !.user = u, !.perm = p]

\* await interaction.response.defer()
Defer(i) ==
    /\ pc[i] = "received"
    /\ Goto(i, CASE req[i].kind = "save" -> "save_validate"
                 [] req[i].kind = "list" -> "list_connect"
                 [] req[i].kind = "get" -> "get_connect"
                 [] req[i].kind = "remove" -> "rem_connect")
    /\ UNCHANGED <<store, seq, writer, req, loc, conn, sent, created, confirmed, issued, seen>>

\* await aiosqlite.connect(DATABASE), entering the async with block
Connect(i) ==
    /\ pc[i] \in {"save_connect", "list_connect", "get_connect", "rem_connect"}
    /\ Goto(i, CASE pc[i] = "save_connect" -> "save_insert"
                 [] pc[i] = "list_connect" -> "list_query"
                 [] pc[i] = "get_connect" -> "get_query"
                 [] pc[i] = "rem_connect" -> "rem_select")
    /\ Open(i)
    /\ UNCHANGED <<store, seq, writer, req, loc, sent, created, confirmed, issued, seen>>

\* link_save: is_valid_url, tag normalisation, added_at
SaveValidate(i) ==
    /\ pc[i] = "save_validate"
    /\ IF ~is_valid_url(req[i].url)
       THEN /\ Goto(i, "save_invalid")
            /\ UNCHANGED loc
       ELSE \E t \in Times :
                /\ Goto(i, "save_connect")
                /\ SetLoc(i, [loc[i] EXCEPT !.tags_norm = NormalizeTags(req[i].tags),
                                            !.added_at = IsoFormat(t)])
    /\ UNCHANGED <<store, seq, writer, req, conn, sent, created, confirmed, issued, seen>>

\* link_save: followup.send("URL tidak valid ...", ephemeral=True)
SaveSendInvalid(i) ==
    /\ pc[i] = "save_invalid"
    /\ Send(i, Msg("invalid_url", TRUE))
    /\ Goto(i, "rejected")
    /\ UNCHANGED <<store, seq, writer, req, loc, conn, created, confirmed, issued, seen>>

\* link_save: db.execute(INSERT ...); the statement takes the write lock
\* and the cursor learns the new row's id
SaveInsert(i) ==
    /\ pc[i] = "save_insert"
    /\ writer = 0
    /\ writer' = i
    /\ SetLoc(i, [loc[i] EXCEPT !.rowid = NextRowId])
    /\ Goto(i, "save_commit")
    /\ UNCHANGED <<store, seq, req, conn, sent, created, confirmed, issued, seen>>

\* link_save: db.commit(); the row becomes part of the table
SaveCommit(i) ==
    /\ pc[i] = "save_commit"
    /\ LET id == loc[i].rowid
           r == Row(id, req[i].url, req[i].title, loc[i].tags_norm,
                    req[i].user, UserName(req[i].user), loc[i].added_at)
       IN /\ store' = [x \in Ids \cup {id} |-> IF x = id THEN r ELSE store[x]]
          /\ seq' = IF id > seq THEN id ELSE seq
          /\ created' = Append(created,
                 [id |-> id, url |-> req[i].url, title |-> req[i].title,
                  tags |-> req[i].tags, user |-> req[i].user,
                  at |-> loc[i].added_at, by |-> i])
    /\ writer' = 0
    /\ Goto(i, "save_close")
    /\ UNCHANGED <<req, loc, conn, sent, confirmed, issued, seen>>

\* leaving an async with block whose body has run to its end
CloseConn(i) ==
    /\ pc[i] \in {"save_close", "list_close", "get_close", "rem_close"}
    /\ Goto(i, CASE pc[i] = "save_close" -> "save_send"
                 [] pc[i] = "list_close" -> "list_send"
                 [] pc[i] = "get_close" -> "get_send"
                 [] pc[i] = "rem_close" -> "rem_send")
    /\ Close(i)
    /\ UNCHANGED <<store, seq, writer, req, loc, sent, created, confirmed, issued, seen>>

\* a confirmation that reports the latest id of the table instead of the
\* cursor's lastrowid
SaveSendLatestId(i) ==
    /\ pc[i] = "save_send"
    /\ Send(i, [Msg("saved", FALSE) EXCEPT
                    !.id = seq,
                    !.label = Label(req[i].title, req[i].url),
                    !.link = req[i].url,
                    !.tags = loc[i].tags_norm,
                    !.by = UserName(req[i].user)])
    /\ Goto(i, "responded")
    /\ UNCHANGED <<store, seq, writer, req, loc, conn, created, confirmed, issued, seen>>

\* link_save: followup.send(embed=embed)
SaveSend(i) ==
    /\ pc[i] = "save_send"
    /\ Send(i, [Msg("saved", FALSE) EXCEPT
                    !.id = loc[i].rowid,
                    !.label = Label(req[i].title, req[i].url),
                    !.link = req[i].url,
                    !.tags = loc[i].tags_norm,
                    !.by = UserName(req[i].user)])
    /\ Goto(i, "responded")
    /\ UNCHANGED <<store, seq, writer, req, loc, conn, created, confirmed, issued, seen>>

\* tag_norm of link_list; None when the tag argument is missing or empty
ListTagNorm(tag) ==
    IF tag = None \/ tag = <<>> THEN None ELSE Lower(Strip(tag))

\* link_list: db.execute(q) and cur.fetchall()
ListQuery(i) ==
    /\ pc[i] = "list_query"
    /\ SetLoc(i, [loc[i] EXCEPT !.rows = SelectList(ListTagNorm(req[i].tag))])
    /\ Goto(i, "list_close")
    /\ UNCHANGED <<store, seq, writer, req, conn, sent, created, confirmed, issued, seen>>

\* ids of rows[:10]
ToShow(rows) ==
    LET to_show == Limit(rows, ShowLimit)
    IN [k \in 1 .. Len(to_show) |-> to_show[k].id]

\* link_list: the "not found" notice, or the embed with its footer
ListSend(i) ==
    /\ pc[i] = "list_send"
    /\ IF loc[i].rows = <<>>
       THEN /\ Send(i, Msg("empty", TRUE))
            /\ Goto(i, "rejected")
       ELSE /\ Send(i, [Msg("list", FALSE) EXCEPT
                            !.shown = ToShow(loc[i].rows),
                            !.total = Len(loc[i].rows)])
            /\ Goto(i, "responded")
    /\ UNCHANGED <<store, seq, writer, req, loc, conn, created, confirmed, issued, seen>>

\* a lookup that takes the row out of the table as it reads it
GetQueryAndDelete(i) ==
    /\ pc[i] = "get_query"
    /\ SetLoc(i, [loc[i] EXCEPT !.row = SelectById(req[i].id)])
    /\ store' = DeleteById(req[i].id)
    /\ Goto(i, "get_close")
    /\ UNCHANGED <<seq, writer, req, conn, sent, created, confirmed, issued, seen>>

\* link_get: db.execute(SELECT ... WHERE id = ?) and cur.fetchone()
GetQuery(i) ==
    /\ pc[i] = "get_query"
    /\ SetLoc(i, [loc[i] EXCEPT !.row = SelectById(req[i].id)])
    /\ Goto(i, "get_close")
    /\ UNCHANGED <<store, seq, writer, req, conn, sent, created, confirmed, issued, seen>>

\* link_get: the "not found" notice, or the embed with the row's detail
GetSend(i) ==
    /\ pc[i] = "get_send"
    /\ IF loc[i].row = <<>>
       THEN /\ Send(i, [Msg("not_found", TRUE) EXCEPT !.id = req[i].id])
            /\ Goto(i, "rejected")
       ELSE LET row == loc[i].row[1]
            IN /\ Send(i, [Msg("detail", FALSE) EXCEPT
                               !.id = row.id,
                               !.label = Label(row.title, row.url),
                               !.link = row.url,
                               !.tags = IF row.tags # None /\ row.tags # <<>>
                                        THEN row.tags ELSE <<"-">>,
                               !.by = row.added_by_name,
                               !.at = row.added_at])
               /\ Goto(i, "responded")
    /\ UNCHANGED <<store, seq, writer, req, loc, conn, created, confirmed, issued, seen>>

\* the permission test with its `not` left out
DeniedWithPermission(r, row) == r.user # row.added_by_id /\ r.perm

\* interaction.user.id != added_by_id and not ...manage_messages
Denied(r, row) == r.user # row.added_by_id /\ ~r.perm

\* link_remove: the SELECT, fetchone() and the two checks on its row
RemoveSelect(i) ==
    /\ pc[i] = "rem_select"
    /\ LET row == SelectById(req[i].id)
       IN /\ SetLoc(i, [loc[i] EXCEPT !.row = row])
          /\ Goto(i, IF row = <<>> THEN "rem_notfound"
                     ELSE IF Denied(req[i], row[1]) THEN "rem_denied"
                     ELSE "rem_delete")
    /\ UNCHANGED <<store, seq, writer, req, conn, sent, created, confirmed, issued, seen>>

\* link_remove: the "not found" notice, sent inside the async with block
RemoveSendNotFound(i) ==
    /\ pc[i] = "rem_notfound"
    /\ Send(i, [Msg("not_found", TRUE) EXCEPT !.id = req[i].id])
    /\ Goto(i, "rem_return")
    /\ UNCHANGED <<store, seq, writer, req, loc, conn, created, confirmed, issued, seen>>

\* link_remove: the permission notice, sent inside the async with block
RemoveSendDenied(i) ==
    /\ pc[i] = "rem_denied"
    /\ Send(i, [Msg("denied", TRUE) EXCEPT !.id = req[i].id])
    /\ Goto(i, "rem_return")
    /\ UNCHANGED <<store, seq, writer, req, loc, conn, created, confirmed, issued, seen>>

\* link_remove: return from inside the async with block closes the connection
RemoveReturn(i) ==
    /\ pc[i] = "rem_return"
    /\ Close(i)
    /\ Goto(i, "rejected")
    /\ UNCHANGED <<store, seq, writer, req, loc, sent, created, confirmed, issued, seen>>

\* link_remove: db.execute(DELETE ...); the statement takes the write lock
RemoveDelete(i) ==
    /\ pc[i] = "rem_delete"
    /\ writer = 0
    /\ writer' = i
    /\ SetLoc(i, [loc[i] EXCEPT !.deleted = IF req[i].id \in Ids THEN 1 ELSE 0])
    /\ Goto(i, "rem_commit")
    /\ UNCHANGED <<store, seq, req, conn, sent, created, confirmed, issued, seen>>

\* link_remove: db.commit(); the row is gone from the table
RemoveCommit(i) ==
    /\ pc[i] = "rem_commit"
    /\ store' = DeleteById(req[i].id)
    /\ writer' = 0
    /\ Goto(i, "rem_close")
    /\ UNCHANGED <<seq, req, loc, conn, sent, created, confirmed, issued, seen>>

\* link_remove: followup.send("Link ID ... berhasil dihapus. (title or url)")
RemoveSend(i) ==
    /\ pc[i] = "rem_send"
    /\ LET row == loc[i].row[1]
       IN /\ Send(i, [Msg("removed", TRUE) EXCEPT
                          !.id = req[i].id,
                          !.label = Label(row.title, row.url)])
          /\ confirmed' = IF req[i].user = row.added_by_id
                          THEN confirmed \cup {req[i].id} ELSE confirmed
    /\ Goto(i, "responded")
    /\ UNCHANGED <<store, seq, writer, req, loc, conn, created, issued, seen>>

\* positions at which the handler is waiting on the database
StorePcs ==
    {"save_connect", "save_insert", "save_commit",
     "list_connect", "list_query",
     "get_connect", "get_query",
     "rem_connect", "rem_select", "rem_delete", "rem_commit"}

\* an awaited database call raises (sqlite3.OperationalError: the file is
\* unreachable, or the lock was not granted in time); no handler catches
\* it, the async with block closes the connection, which rolls back what
\* was not committed, and the exception leaves the handler
StoreFails(i) ==
    /\ pc[i] \in StorePcs
    /\ Goto(i, "crashed")
    /\ Close(i)
    /\ writer' = IF writer = i THEN 0 ELSE writer
    /\ UNCHANGED <<store, seq, req, loc, sent, created, confirmed, issued, seen>>

----------------------------------------------------------------------------
(* The bot serving concurrent invocations *)

\* on_ready has run init_db: the table exists and is empty
Init ==
    /\ store = <<>>
    /\ seq = 0
    /\ writer = 0
    /\ pc = [i \in Procs |-> "idle"]
    /\ req = [i \in Procs |-> NoReq]
    /\ loc = [i \in Procs |-> NoLoc]
    /\ conn = [i \in Procs |-> FALSE]
    /\ sent = [i \in Procs |-> <<>>]
    /\ created = <<>>
    /\ confirmed = {}
    /\ issued = 0
    /\ seen = [i \in Procs |-> FALSE]

\* saves started so far that may still insert
Inserting == Cardinality({i \in Procs : req[i].kind = "save" /\ pc[i] \notin Terminal
                                        /\ pc[i] \notin {"save_close", "save_send", "save_invalid"}})

InvokeSave(i) ==
    \E a \in SaveArgs : \E u \in Users :
        /\ seq + Inserting < MaxId
        /\ Invoke(i, SaveReq(a, u))

InvokeList(i) == \E t \in ListArgs : Invoke(i, ListReq(t))

InvokeGet(i) == \E id \in IdArgs : Invoke(i, GetReq(id))

InvokeRemove(i) ==
    \E id \in IdArgs : \E c \in RemoveCallers :
        Invoke(i, RemoveReq(id, c[1], c[2]))

Next ==
    \E i \in Procs :
        \/ issued < MaxInv /\ InvokeSave(i)
        \/ issued < MaxInv /\ InvokeList(i)
        \/ issued < MaxInv /\ InvokeGet(i)
        \/ issued < MaxInv /\ InvokeRemove(i)
        \/ Defer(i)
        \/ Connect(i)
        \/ SaveValidate(i)
        \/ SaveSendInvalid(i)
        \/ SaveInsert(i)
        \/ SaveCommit(i)
        \/ CloseConn(i)
        \/ SaveSend(i)
        \/ ListQuery(i)
        \/ ListSend(i)
        \/ GetQuery(i)
        \/ GetSend(i)
        \/ RemoveSelect(i)
        \/ RemoveSendNotFound(i)
        \/ RemoveSendDenied(i)
        \/ RemoveReturn(i)
        \/ RemoveDelete(i)
        \/ RemoveCommit(i)
        \/ RemoveSend(i)
        \/ StoreFails(i)

Spec == Init /\ [][Next]_vars

----------------------------------------------------------------------------
(* One save of a generated tags argument into the empty table *)

\* what may stand between two commas of a tags argument
RawSegs == {<<>>, <<" ">>, <<" ", "A">>, <<" ", "b", " ">>, <<"b">>}

TagInputs ==
    {None} \cup
    UNION {{Join(l) : l \in [1 .. n -> RawSegs]} : n \in 1 .. MaxSegs}

InitTags ==
    \E t \in TagInputs :
        /\ store = <<>>
        /\ seq = 0
        /\ writer = 0
        /\ pc = [i \in Procs |-> IF i = 1 THEN "received" ELSE "idle"]
        /\ req = [i \in Procs |->
                    IF i = 1
                    THEN SaveReq([url |-> UrlGood, title |-> None, tags |-> t], 1)
                    ELSE NoReq]
        /\ loc = [i \in Procs |-> NoLoc]
        /\ conn = [i \in Procs |-> FALSE]
        /\ sent = [i \in Procs |-> <<>>]
        /\ created = <<>>
        /\ confirmed = {}
        /\ issued = 1
        /\ seen = [i \in Procs |-> FALSE]

NextTags ==
    \/ Defer(1)
    \/ SaveValidate(1)
    \/ Connect(1)
    \/ SaveInsert(1)
    \/ SaveCommit(1)
    \/ CloseConn(1)
    \/ SaveSend(1)
    \/ StoreFails(1)

SpecTags == InitTags /\ [][NextTags]_vars

----------------------------------------------------------------------------
(* The validation of one generated url argument *)

UrlAlphabet == {"h", "1", ".", ":", "/", " ", "["}

UrlHttps == <<"h", "t", "t", "p", "s", ":", "/", "/", "a", ".", "c", "o">>

UrlInputs ==
    {UrlGood, UrlBad, UrlHttps} \cup
    UNION {[1 .. n -> UrlAlphabet] : n \in 1 .. MaxUrlLen}

InitUrl ==
    \E u \in UrlInputs :
        /\ store = <<>>
        /\ seq = 0
        /\ writer = 0
        /\ pc = [i \in Procs |-> IF i = 1 THEN "received" ELSE "idle"]
        /\ req = [i \in Procs |->
                    IF i = 1
                    THEN SaveReq([url |-> u, title |-> None, tags |-> None], 1)
                    ELSE NoReq]
        /\ loc = [i \in Procs |-> NoLoc]
        /\ conn = [i \in Procs |-> FALSE]
        /\ sent = [i \in Procs |-> <<>>]
        /\ created = <<>>
        /\ confirmed = {}
        /\ issued = 1
        /\ seen = [i \in Procs |-> FALSE]

NextUrl ==
    \/ Defer(1)
    \/ SaveValidate(1)
    \/ SaveSendInvalid(1)

SpecUrl == InitUrl /\ [][NextUrl]_vars

----------------------------------------------------------------------------
(* Saves and unfiltered lists, one invocation at a time *)

SeqSave ==
    /\ seq < MaxSeqSaves
    /\ issued < MaxSeqInv
    /\ Invoke(1, SaveReq([url |-> UrlGood, title |-> <<"t">>, tags |-> TagsExample], 1))

SeqList ==
    /\ issued < MaxSeqInv
    /\ Invoke(1, ListReq(None))

NextSeq ==
    \/ SeqSave
    \/ SeqList
    \/ Defer(1)
    \/ SaveValidate(1)
    \/ Connect(1)
    \/ SaveInsert(1)
    \/ SaveCommit(1)
    \/ CloseConn(1)
    \/ SaveSend(1)
    \/ ListQuery(1)
    \/ ListSend(1)
    \/ StoreFails(1)

SpecSeq == Init /\ [][NextSeq]_vars

----------------------------------------------------------------------------
(* Properties *)

\* the invocation that takes the step
Acts(i) == pc'[i] # pc[i]

\* the caller of request r may delete row
Authorised(r, row) == r.user = row.added_by_id \/ r.perm

\* the message invocation i delivers in this step, if it delivers one
Delivers(i, type) ==
    /\ Len(sent'[i]) = Len(sent[i]) + 1
    /\ sent'[i][Len(sent'[i])].type = type

\* C1: a remove invoked by someone who neither created the record nor holds
\* the moderation permission changes nothing in the table and the message it
\* delivers after looking the record up is the permission notice; a record
\* leaves the table only in a step of a remove for that id whose invoker
\* created it or holds the permission.
RemoveNeedsAuthority ==
    [][ /\ \A i \in Procs :
              (Acts(i) /\ req[i].kind = "remove" /\ req[i].id \in Ids
                       /\ ~Authorised(req[i], store[req[i].id]))
              => /\ store' = store
                 /\ (loc[i].row # <<>> /\ Len(sent'[i]) > Len(sent[i]))
                        => Delivers(i, "denied")
        /\ \A id \in Ids \ DOMAIN store' :
              \E i \in Procs :
                  /\ Acts(i)
                  /\ req[i].kind = "remove"
                  /\ req[i].id = id
                  /\ Authorised(req[i], store[id]) ]_vars

\* C1 witness: a remove was refused with the permission notice and the
\* record it asked for is still in the table
RemoveRefused ==
    \E i \in Procs :
        /\ pc[i] = "rejected"
        /\ req[i].kind = "remove"
        /\ req[i].id \in Ids
        /\ ~Authorised(req[i], store[req[i].id])
        /\ Len(sent[i]) = 1
        /\ sent[i][1].type = "denied"

\* C2: once the creator has been told that the record is removed, the id is
\* not in the table, and a get for that id issued after the confirmation
\* finds no row and answers with the "not found" notice.
RemovedStaysRemoved ==
    /\ \A id \in confirmed : id \notin Ids
    /\ \A i \in Procs :
          (req[i].kind = "get" /\ seen[i])
          => /\ loc[i].row = <<>>
             /\ pc[i] \in {"rejected", "responded"}
                    => sent[i] = <<[Msg("not_found", TRUE) EXCEPT !.id = req[i].id]>>

\* C2 witness: a get issued after the confirmation has answered "not found"
GetAfterRemoveNotFound ==
    \E i \in Procs :
        /\ req[i].kind = "get"
        /\ seen[i]
        /\ pc[i] = "rejected"
        /\ sent[i][1].type = "not_found"

\* C3: the ids handed out are strictly increasing in the order of the
\* inserts, whatever was deleted in between, and an insert under way holds
\* an id above every id handed out before.
IdsNeverReused ==
    /\ \A j, k \in 1 .. Len(created) : j < k => created[j].id < created[k].id
    /\ \A i \in Procs : \A k \in 1 .. Len(created) :
          pc[i] = "save_commit" => loc[i].rowid > created[k].id

\* C3 witness: the table is empty again after its only record, which held
\* the highest id, was deleted, and an insert has been given a higher id
InsertAfterTableEmptied ==
    \E i \in Procs :
        /\ pc[i] = "save_commit"
        /\ Ids = {}
        /\ Len(created) = 1
        /\ loc[i].rowid > created[1].id

\* C4: an invocation that has ended has delivered exactly one followup
\* message, and no invocation ever delivers a second one.
ExactlyOneResponse ==
    \A i \in Procs :
        /\ Len(sent[i]) <= 1
        /\ pc[i] \in Terminal => Len(sent[i]) = 1

\* C5: the removal confirmation is delivered only by an invocation whose own
\* DELETE took the row it had looked up out of the table.
ConfirmsOwnDelete ==
    \A i \in Procs :
        (\E k \in 1 .. Len(sent[i]) : sent[i][k].type = "removed")
        => loc[i].deleted = 1

\* the entry of the history for the insert that handed out id
CreationOf(id) ==
    created[CHOOSE k \in 1 .. Len(created) : created[k].id = id]

WasCreated(id) == \E k \in 1 .. Len(created) : created[k].id = id

\* the row that the arguments of a save stand for
RowAsSupplied(c) ==
    [id |-> c.id, url |-> c.url, title |-> c.title,
     tags |-> NormalizeTags(c.tags), added_by_id |-> c.user,
     added_by_name |-> UserName(c.user), added_at |-> c.at]

\* C6: every row of the table is, field by field, what the save that
\* inserted it was called with (its tags normalised), so no invocation has
\* changed it; the row a get has fetched is that row as well, and the detail
\* message shows its link, label, tags, creator name and timestamp.
RoundTrip ==
    /\ \A id \in Ids : WasCreated(id) /\ store[id] = RowAsSupplied(CreationOf(id))
    /\ \A i \in Procs :
          (req[i].kind = "get" /\ loc[i].row # <<>>)
          => /\ WasCreated(req[i].id)
             /\ loc[i].row[1] = RowAsSupplied(CreationOf(req[i].id))
             /\ pc[i] = "responded" =>
                   LET c == CreationOf(req[i].id)
                       m == sent[i][1]
                   IN /\ m.type = "detail"
                      /\ m.id = req[i].id
                      /\ m.link = c.url
                      /\ m.label = (IF c.title = None THEN c.url ELSE c.title)
                      /\ m.tags = (IF NormalizeTags(c.tags) = None
                                   THEN <<"-">> ELSE NormalizeTags(c.tags))
                      /\ m.by = UserName(c.user)
                      /\ m.at = c.at

\* C6 witness: a get has shown the detail of a record that is in the table,
\* after another invocation was served in between
GetShowsRecord ==
    \E i \in Procs :
        /\ req[i].kind = "get"
        /\ pc[i] = "responded"
        /\ req[i].id \in Ids
        /\ issued >= 3
        /\ sent[i][1].link = UrlGood

\* the tags of a stored row as a list of entries
Entries(tags) == IF tags = None THEN <<>> ELSE Split(tags)

IsBlank(seg) == \A k \in 1 .. Len(seg) : seg[k] = " "

\* the segments of a tags argument; none when the argument is missing or empty
Segments(tags) == IF tags = None \/ tags = <<>> THEN <<>> ELSE Split(tags)

\* C7, as claimed: no entry occurs twice in the stored tags of a row, and
\* the argument " A, b ,b, " is stored as "a,b".
TagsDeduplicated ==
    \A id \in Ids :
        LET e == Entries(store[id].tags)
        IN /\ \A j, k \in 1 .. Len(e) : j # k => e[j] # e[k]
           /\ CreationOf(id).tags = TagsExample
                  => store[id].tags = <<"a", ",", "b">>

\* C7, amended: the stored entries are the non-blank segments of the
\* argument, trimmed and lowercased, one entry for each such segment and in
\* the order of the segments, a repeated tag being stored as often as it was
\* given; the argument " A, b ,b, " is stored as "a,b,b".
TagsKeepOrderAndRepeats ==
    \A id \in Ids :
        LET e == Entries(store[id].tags)
            s == Segments(CreationOf(id).tags)
            kept == {k \in 1 .. Len(s) : ~IsBlank(s[k])}
        IN /\ Len(e) = Cardinality(kept)
           /\ \A k \in kept :
                 e[Cardinality({m \in kept : m <= k})] = Lower(Strip(s[k]))
           /\ CreationOf(id).tags = TagsExample
                  => store[id].tags = <<"a", ",", "b", ",", "b">>

\* C7 witness: the row saved with tags " A, b ,b, " is in the table
ExampleTagsStored ==
    \E id \in Ids :
        /\ CreationOf(id).tags = TagsExample
        /\ store[id].tags = <<"a", ",", "b", ",", "b">>

\* C8: the tags of a stored row are absent, or a text that is not empty and
\* whose entries between the commas are not empty, have no blank at either
\* end and have no capital letter; an argument that is missing, empty or made
\* of blanks and commas only is stored as absent.
TagsWellFormed ==
    \A id \in Ids :
        LET t == store[id].tags
            raw == CreationOf(id).tags
            e == Entries(t)
        IN /\ t # <<>>
           /\ \A k \in 1 .. Len(e) :
                 /\ e[k] # <<>>
                 /\ e[k][1] # " "
                 /\ e[k][Len(e[k])] # " "
                 /\ \A m \in 1 .. Len(e[k]) : e[k][m] \notin {"A", "B"}
           /\ (raw = None \/ \A m \in 1 .. Len(raw) : raw[m] \in {" ", ","})
                  => t = None

\* C8 witness: a row saved with tags made of blanks and commas is in the
\* table without tags
BlankTagsStoredAbsent ==
    \E id \in Ids :
        LET raw == CreationOf(id).tags
        IN /\ raw # None
           /\ Len(raw) >= 3
           /\ \A m \in 1 .. Len(raw) : raw[m] \in {" ", ","}
           /\ store[id].tags = None

\* C9: the rows a filtered list has fetched are the rows whose tags contain
\* the trimmed, lowercased filter as a substring, and no other row.
ListFilterIsSubstring ==
    [][ \A i \in Procs :
            (pc[i] = "list_query" /\ pc'[i] = "list_close" /\ req[i].tag # None)
            => {loc'[i].rows[k].id : k \in 1 .. Len(loc'[i].rows)}
                   = {id \in Ids : /\ store[id].tags # None
                                   /\ Contains(store[id].tags,
                                               Lower(Strip(req[i].tag)))} ]_vars

\* C10: with one invocation at a time and n saves done, a list fetches the
\* min(n, 50) rows saved last, the latest first, each id below the one
\* before it; the message shows the first min(10, fetched) of them in that
\* order and gives the number fetched as the total.
ListNewestFirst ==
    (req[1].kind = "list" /\ pc[1] \in {"list_close", "list_send", "responded", "rejected"})
    => LET n == Len(created)
           rows == loc[1].rows
           fetched == IF n < 50 THEN n ELSE 50
           shown == IF fetched < 10 THEN fetched ELSE 10
       IN /\ Len(rows) = fetched
          /\ \A k \in 1 .. fetched : rows[k].id = created[n + 1 - k].id
          /\ \A k \in 1 .. fetched - 1 : rows[k].id > rows[k + 1].id
          /\ pc[1] = "responded" =>
                /\ Len(sent[1][1].shown) = shown
                /\ \A k \in 1 .. shown : sent[1][1].shown[k] = rows[k].id
                /\ sent[1][1].total = fetched
          /\ pc[1] = "rejected" => n = 0

\* C10 witness: a list has answered after more than 50 saves
ListOfMoreThanFifty ==
    /\ req[1].kind = "list"
    /\ pc[1] = "responded"
    /\ Len(created) > 50
    /\ sent[1][1].total = 50
    /\ Len(sent[1][1].shown) = 10

\* the rows of the table that a list with this tag argument asks for
Matching(tag) ==
    {id \in Ids : tag = None \/ tag = <<>>
                  \/ (store[id].tags # None
                      /\ Contains(store[id].tags, Lower(Strip(tag))))}

\* C11: with one invocation at a time, the footer of a list gives the number
\* of entries shown and, as the total, the number of rows in the table that
\* match the request (all rows when no tag is given).
ListTotalIsMatchCount ==
    (req[1].kind = "list" /\ pc[1] = "responded")
    => /\ sent[1][1].total = Cardinality(Matching(req[1].tag))
       /\ Len(sent[1][1].shown) <= sent[1][1].total

\* the invocation has looked its id up and found no row
LookedUpNothing(i) ==
    \/ req[i].kind = "get" /\ pc[i] \in {"get_close", "get_send"}
                           /\ loc[i].row = <<>>
    \/ req[i].kind = "remove" /\ pc[i] \in {"rem_notfound", "rem_return"}

\* C12: a save whose url is not valid inserts nothing and ends with the
\* validation notice, so every url in the table is valid and the url
\* "hello" is never stored; a get or remove that found no row for its id
\* does not fail, ends with the "not found" notice for that id, and none of
\* these invocations changes the table in any of its steps.
RecoveredErrorsChangeNothing ==
    /\ [](/\ \A id \in Ids : is_valid_url(store[id].url) /\ store[id].url # UrlBad
          /\ \A i \in Procs :
                /\ (req[i].kind = "save" /\ req[i].url = UrlBad)
                   => /\ pc[i] \in {"received", "save_validate", "save_invalid", "rejected"}
                      /\ loc[i].rowid = 0
                      /\ pc[i] = "rejected" => sent[i] = <<Msg("invalid_url", TRUE)>>
                /\ (req[i].kind \in {"get", "remove"} /\ pc[i] = "rejected"
                        /\ loc[i].row = <<>>)
                   => /\ Len(sent[i]) = 1
                      /\ sent[i][1].type = "not_found"
                      /\ sent[i][1].id = req[i].id)
    /\ [][ \A i \in Procs :
              /\ (Acts(i) /\ req[i].kind = "save" /\ req[i].url = UrlBad)
                 => /\ store' = store
                    /\ seq' = seq
              /\ (Acts(i) /\ LookedUpNothing(i))
                 => /\ store' = store
                    /\ pc'[i] # "crashed" ]_vars

\* C12 witness: a save was refused for its url and a get or remove was
\* answered "not found"
BothErrorsReported ==
    \E i, j \in Procs :
        /\ req[i].kind = "save"
        /\ pc[i] = "rejected"
        /\ sent[i][1].type = "invalid_url"
        /\ req[j].kind \in {"get", "remove"}
        /\ pc[j] = "rejected"
        /\ sent[j][1].type = "not_found"

\* C13: an invocation whose database call failed has delivered one message,
\* a failure notice, to its caller; the failure changes no row of the table
\* and ends no other invocation.
StoreFailureIsReported ==
    /\ [](\A i \in Procs :
              pc[i] = "crashed"
              => /\ Len(sent[i]) = 1
                 /\ sent[i][1].type = "failure")
    /\ [][ \A i \in Procs :
              (Acts(i) /\ pc'[i] = "crashed")
              => /\ store' = store
                 /\ \A j \in Procs \ {i} : pc'[j] = pc[j] /\ sent'[j] = sent[j] ]_vars

\* positions at which the handler is waiting for a followup to be delivered
SendPcs ==
    {"save_invalid", "save_send", "list_send", "get_send",
     "rem_notfound", "rem_denied", "rem_send"}

\* C14: no invocation has its connection open while it waits for a followup
\* to be delivered, and an invocation that has ended has no open connection.
NoConnectionAcrossSend ==
    \A i \in Procs :
        /\ pc[i] \in SendPcs => ~conn[i]
        /\ pc[i] \in Terminal => ~conn[i]

\* C15, as claimed: the notices "no results", "not found" and "permission
\* denied" are sent ephemeral, and the validation notice of save and every
\* success message are not.
VisibilityAsTabled ==
    \A i \in Procs : \A k \in 1 .. Len(sent[i]) :
        sent[i][k].ephemeral <=> sent[i][k].type \in {"empty", "not_found", "denied"}

\* C15, amended: the handlers pass ephemeral=True with the notices "no
\* results", "not found" and "permission denied", with the validation notice
\* of save and with the removal confirmation; the success messages of save,
\* list and get are sent without it.
VisibilityAsSent ==
    \A i \in Procs : \A k \in 1 .. Len(sent[i]) :
        /\ sent[i][k].type \in {"empty", "not_found", "denied", "invalid_url",
                                "removed", "saved", "list", "detail"}
        /\ sent[i][k].ephemeral <=>
               sent[i][k].type \in {"empty", "not_found", "denied",
                                    "invalid_url", "removed"}

\* C15 witness: a removal confirmation and a validation notice have been
\* delivered, both ephemeral
EphemeralConfirmationAndNotice ==
    \E i, j \in Procs :
        /\ pc[i] = "responded"
        /\ sent[i][1].type = "removed"
        /\ sent[i][1].ephemeral
        /\ pc[j] = "rejected"
        /\ sent[j][1].type = "invalid_url"
        /\ sent[j][1].ephemeral

\* the text, blanks at its start aside, begins with a scheme and a colon
HasScheme(url) ==
    LET v == LStrip(url)
    IN \E k \in 2 .. Len(v) :
           /\ v[k] = ":"
           /\ IsAlpha(v[1])
           /\ \A j \in 1 .. k - 1 : IsSchemeChar(v[j])

\* ... and goes on with // and a host that is not empty and has no bracket
HasSchemeAndHost(url) ==
    LET v == LStrip(url)
    IN \E k \in 2 .. Len(v) : \E e \in k + 3 .. Len(v) :
           /\ v[k] = ":"
           /\ IsAlpha(v[1])
           /\ \A j \in 1 .. k - 1 : IsSchemeChar(v[j])
           /\ v[k + 1] = "/"
           /\ v[k + 2] = "/"
           /\ \A j \in k + 3 .. e : v[j] \notin {"/", "[", "]"}
           /\ (e = Len(v) \/ v[e + 1] = "/")

HasDot(url) == \E k \in 1 .. Len(url) : url[k] = "."

\* C16: the validation gives an answer for every url, also for the one on
\* which urlparse raises; a url with a scheme and a host is accepted (so is
\* https://a.co) and a url with no dot and no scheme is refused (so is
\* hello).
ValidationTotalAndTwoSided ==
    LET u == req[1].url
    IN /\ is_valid_url(u) \in BOOLEAN
       /\ pc[1] = "save_validate" => ENABLED SaveValidate(1)
       /\ pc[1] \notin {"received", "save_validate"}
          => /\ pc[1] \in {"save_connect", "save_invalid", "rejected"}
             /\ HasSchemeAndHost(u) => pc[1] = "save_connect"
             /\ (~HasDot(u) /\ ~HasScheme(u)) => pc[1] \in {"save_invalid", "rejected"}
             /\ u = UrlHttps => pc[1] = "save_connect"
             /\ u = UrlBad => pc[1] \in {"save_invalid", "rejected"}

\* C16 witness: https://a.co has been accepted
HttpsUrlAccepted ==
    /\ req[1].url = UrlHttps
    /\ HasSchemeAndHost(req[1].url)
    /\ pc[1] = "save_connect"

\* how far an invocation has come: 0 received, 1 acknowledged and
\* validating, 2 executing its write, 3 ended
Phase(p) ==
    CASE p \in {"idle", "received"} -> 0
      [] p \in {"save_validate", "save_invalid", "save_connect", "save_insert",
                "list_connect", "list_query", "list_close", "list_send",
                "get_connect", "get_query", "get_close", "get_send",
                "rem_connect", "rem_select", "rem_notfound", "rem_denied",
                "rem_return", "rem_delete"} -> 1
      [] p \in {"save_commit", "save_close", "save_send",
                "rem_commit", "rem_close", "rem_send"} -> 2
      [] p \in Terminal -> 3

\* C17: an invocation only moves forward through received, acknowledged and
\* validating, executing, ended; before the acknowledgement it has opened no
\* connection, read nothing and sent nothing; one that ended rejected has
\* run no INSERT and no DELETE; when the save confirmation is out the row
\* with the reported id has been inserted, and when the removal confirmation
\* is out the row is gone; and once its message is delivered the invocation
\* is in its last state, Rejected or Responded, and does nothing more.
Lifecycle ==
    /\ [](\A i \in Procs :
            /\ pc[i] = "received"
               => ~conn[i] /\ sent[i] = <<>> /\ loc[i] = NoLoc
            /\ pc[i] = "rejected"
               => loc[i].rowid = 0 /\ loc[i].deleted = 0 /\ writer # i
            /\ \A k \in 1 .. Len(sent[i]) :
                  /\ sent[i][k].type = "saved"
                     => \E c \in 1 .. Len(created) :
                            /\ created[c].id = sent[i][k].id
                            /\ created[c].url = sent[i][k].link
                  /\ sent[i][k].type = "removed" => sent[i][k].id \notin Ids
            /\ sent[i] # <<>> => pc[i] \in {"responded", "rejected"})
    /\ [][ \A i \in Procs :
              /\ Acts(i) =>
                    \/ pc[i] \in Terminal \cup {"idle"} /\ pc'[i] = "received"
                    \/ pc[i] \notin Terminal /\ Phase(pc'[i]) >= Phase(pc[i])
                                             /\ Phase(pc'[i]) > 0
              /\ (pc[i] = "received" /\ Acts(i))
                    => /\ Phase(pc'[i]) = 1
                       /\ UNCHANGED <<store, seq, writer, conn, sent, loc>>
              /\ (pc[i] \in Terminal /\ ~Acts(i))
                    => /\ sent'[i] = sent[i]
                       /\ conn'[i] = conn[i]
                       /\ loc'[i] = loc[i]
              /\ (pc[i] \in Terminal /\ Acts(i)) => store' = store ]_vars

\* the entries of the history for the inserts that handed out id
InsertsOf(id) == {c \in 1 .. Len(created) : created[c].id = id}

\* C18: no two inserts were given the same id; a save that has committed
\* has inserted one row under its cursor's id; and the id in a save
\* confirmation is the id of the one row inserted by that invocation, with
\* the url, title and tags it was called with.
SaveReportsOwnRow ==
    /\ \A a, b \in 1 .. Len(created) : a # b => created[a].id # created[b].id
    /\ \A i \in Procs :
          /\ (req[i].kind = "save" /\ pc[i] \in {"save_close", "save_send", "responded"})
             => /\ Cardinality(InsertsOf(loc[i].rowid)) = 1
                /\ \A c \in InsertsOf(loc[i].rowid) : created[c].by = i
          /\ \A k \in 1 .. Len(sent[i]) :
                sent[i][k].type = "saved"
                => /\ Cardinality(InsertsOf(sent[i][k].id)) = 1
                   /\ \A c \in InsertsOf(sent[i][k].id) :
                         /\ created[c].by = i
                         /\ created[c].url = req[i].url
                         /\ created[c].title = req[i].title
                         /\ created[c].tags = req[i].tags
                         /\ created[c].user = req[i].user

\* C18 witness: two saves in flight at once have both committed, under
\* different ids, and one of them has sent its confirmation
TwoSavesCommitted ==
    \E i, j \in Procs :
        /\ i # j
        /\ req[i].kind = "save" /\ pc[i] = "responded"
        /\ req[j].kind = "save" /\ pc[j] = "save_send"
        /\ sent[i][1].id = 1
        /\ loc[j].rowid = 2
        /\ issued = 2

\* C19: no step of a list or get invocation changes the table or the id
\* counter, and none takes the write lock or inserts a row.
ReadsChangeNothing ==
    [][ \A i \in Procs :
            (Acts(i) /\ req[i].kind \in {"list", "get"} /\ pc[i] \notin Terminal)
            => /\ store' = store
               /\ seq' = seq
               /\ writer' = writer
               /\ created' = created ]_vars

\* C19 witness: a list and a get have both answered from a table that
\* holds a row
ListAndGetAnswered ==
    \E i, j \in Procs :
        /\ req[i].kind = "list" /\ pc[i] = "responded"
        /\ req[j].kind = "get" /\ pc[j] = "responded"
        /\ req[j].id \in Ids
====
